---- MODULE Spec2Model ----
(***************************************************************************)
(* The todo-list API of main.py: a shared in-memory task list, HTTP        *)
(* handlers that read and change it, and the authorization gate that asks  *)
(* an external policy decision point (permit.check) before a create or a   *)
(* delete.  A handler runs without interruption between two awaits on the  *)
(* event loop; the only await that suspends a request is permit.check, so  *)
(* a request is in flight (pending) exactly while the oracle is deciding.  *)
(*                                                                         *)
(* Spec is the server under concurrent clients, whose responses leave the  *)
(* system.  SpecClient is the server under the test client of              *)
(* test_main.py, which sends one request at a time and keeps the response. *)
(***************************************************************************)
EXTENDS Integers, Sequences, FiniteSets, Bags, TLC

VARIABLES
    tasks,      \* main.py:26  the module-level list of Task
    pending,    \* the bag of requests suspended in permit.check
    response,   \* test_main.py: the response the test client received last
    client      \* test_main.py: where the test client is in its scenario

vars == <<tasks, pending, response, client>>

----------------------------------------------------------------------------
(* Bounds of the model *)

\* the task list is not grown beyond this length
MaxTasks == 4
\* number of requests that can be suspended in the oracle at once
MaxPending == 2

----------------------------------------------------------------------------
(* Values *)

\* Python's None
None == "None"

Admin == "admin@permit-todo.app"
User == "user@permit-todo.app"

\* Authorization headers a client may send: none at all, a scheme that is
\* not Bearer, and the well-formed bearer tokens of the two callers.
NoHeader == [scheme |-> "", credentials |-> ""]
Headers ==
    { NoHeader,
      [scheme |-> "Basic", credentials |-> Admin],
      [scheme |-> "Bearer", credentials |-> Admin],
      [scheme |-> "Bearer", credentials |-> User] }

\* JSON request bodies: a JSON object has only the keys the client sent.
\* The body sent names an owner, names no checked, and has the title of a
\* task of the constructed list.
Bodies == { [title |-> "Task 1", owner |-> User] }

\* task_id values of the path /tasks/{task_id}
Ids == (0 - 1)..(MaxTasks + 1)

\* class Task(BaseModel): the model built from a JSON body, with defaults
Task(json) ==
    [ title |-> json.title,
      checked |-> IF "checked" \in DOMAIN json THEN json.checked ELSE FALSE,
      owner |-> IF "owner" \in DOMAIN json THEN json.owner ELSE None ]

\* the module-level list as constructed
InitialTasks ==
    << [title |-> "Task 1", checked |-> FALSE, owner |-> Admin],
       [title |-> "Task 2", checked |-> TRUE, owner |-> User],
       [title |-> "Task 3", checked |-> FALSE, owner |-> Admin] >>

\* str.lower() on the strings the program lowers
Lower(s) ==
    CASE s = "GET" -> "get"
      [] s = "POST" -> "post"
      [] s = "PUT" -> "put"
      [] s = "DELETE" -> "delete"
      [] s = "Bearer" -> "bearer"
      [] s = "Basic" -> "basic"
      [] OTHER -> s

----------------------------------------------------------------------------
(* Python list operations *)

\* tasks[i] for a 0-based index i: a negative index counts from the end
IndexOk(s, i) == (0 - Len(s)) <= i /\ i < Len(s)
\* the 1-based position tasks[i] denotes when IndexOk(s, i)
Position(s, i) == IF i >= 0 THEN i + 1 ELSE Len(s) + i + 1

\* list.remove(x): deletes the first element equal to x (ValueError if none)
Contains(s, x) == \E i \in 1..Len(s) : s[i] = x
FirstIndex(s, x) == CHOOSE i \in 1..Len(s) : s[i] = x /\ \A j \in 1..(i - 1) : s[j] # x
RemoveAt(s, i) == SubSeq(s, 1, i - 1) \o SubSeq(s, i + 1, Len(s))
ListRemove(s, x) == RemoveAt(s, FirstIndex(s, x))

----------------------------------------------------------------------------
(* URL paths, as the sequence of their "/" separators and segments *)

TasksPath == << "/", "tasks" >>
TaskPath(id) == << "/", "tasks", "/", ToString(id) >>

RECURSIVE StripLeft(_)
StripLeft(p) == IF p # << >> /\ Head(p) = "/" THEN StripLeft(Tail(p)) ELSE p
RECURSIVE StripRight(_)
StripRight(p) ==
    IF p # << >> /\ p[Len(p)] = "/" THEN StripRight(SubSeq(p, 1, Len(p) - 1)) ELSE p
\* path.strip('/')
Strip(p) == StripRight(StripLeft(p))
\* path.split('/')[0]
FirstSegment(p) == IF p = << >> \/ Head(p) = "/" THEN "" ELSE Head(p)

\* a resource name taken from the last segment of the path
ResourceNameLast(path) == IF Strip(path) = << >> THEN "" ELSE Strip(path)[Len(Strip(path))]

\* authorize: resource_name = request.url.path.strip('/').split('/')[0]
ResourceName(path) == FirstSegment(Strip(path))

----------------------------------------------------------------------------
(* Responses *)

Response(status, detail, body) == [status |-> status, detail |-> detail, body |-> body]

NoResponse == Response(0, "", << >>)

\* status of the HTTPException HTTPBearer raises: 403 in the FastAPI releases
\* of the repository's time, 401 in later ones
NotAuthenticatedStatus == {401, 403}

\* the HTTPException of HTTPBearer, raised while the dependencies are solved
NotAuthenticated(status) == Response(status, "Not authenticated", << >>)

\* a Python exception that leaves the handler: 500 Internal Server Error
InternalError(exception) == Response(500, exception, << >>)

\* the test client keeps the response; the other clients' responses leave
\* the system
Send(r) == response' = IF client.phase = "off" THEN response ELSE r

----------------------------------------------------------------------------
(* main.py *)

\* a scheme that takes the credentials of any authorization scheme
token_auth_scheme_any(hdr) == hdr.credentials # ""

\* token_auth_scheme = HTTPBearer(): the Authorization header must be
\* present, have a scheme and credentials, and the scheme must be bearer
token_auth_scheme(hdr) ==
    /\ hdr.scheme # ""
    /\ hdr.credentials # ""
    /\ Lower(hdr.scheme) = "bearer"

\* authorize, up to the call: the arguments of permit.check
authorize(method, path, hdr, json, body) ==
    [ user |-> hdr.credentials,
      action |-> Lower(method),
      resource |->
        [ type |-> ResourceName(path),
          attributes |-> IF Lower(method) \in {"post", "put"} THEN json ELSE body ] ]

\* authorize: raise HTTPException(status_code=403, detail="Not authorized")
NotAuthorized == Response(403, "Not authorized", << >>)

\* get_tasks
get_tasks == Response(200, "", tasks)

\* get_task: return tasks[task_id - 1]
get_task(task_id) ==
    IF IndexOk(tasks, task_id - 1)
    THEN Response(200, "", << tasks[Position(tasks, task_id - 1)] >>)
    ELSE InternalError("IndexError")

\* a create_task that keeps the owner the body names
create_task_body_owner(json, hdr) ==
    [ tasks |-> Append(tasks, Task(json)),
      response |-> Response(200, "", << Task(json) >>) ]

\* create_task: the handler body, run once authenticate and authorize passed
create_task(json, hdr) ==
    LET task == [Task(json) EXCEPT !.owner = hdr.credentials]
    IN  [ tasks |-> Append(tasks, task),
          response |-> Response(200, "", << task >>) ]

\* an update_task that stores the body as it is, owner included
update_task_body_owner(task_id, json) ==
    IF task_id > Len(tasks)
    THEN [ tasks |-> tasks,
           response |-> Response(404, "Task not found", << >>) ]
    ELSE IF ~IndexOk(tasks, task_id - 1)
    THEN [ tasks |-> tasks,
           response |-> InternalError("IndexError") ]
    ELSE [ tasks |-> [tasks EXCEPT ![Position(tasks, task_id - 1)] = Task(json)],
           response |-> Response(200, "", << Task(json) >>) ]

\* update_task: the handler body, run once authenticate passed
update_task(task_id, json) ==
    IF task_id > Len(tasks)
    THEN [ tasks |-> tasks,
           response |-> Response(404, "Task not found", << >>) ]
    ELSE IF ~IndexOk(tasks, task_id - 1)
    THEN [ tasks |-> tasks,
           response |-> InternalError("IndexError") ]
    ELSE LET p == Position(tasks, task_id - 1)
             task == [Task(json) EXCEPT !.owner = tasks[p].owner]
         IN  [ tasks |-> [tasks EXCEPT ![p] = task],
               response |-> Response(200, "", << task >>) ]

\* a delete_task that removes by position: del tasks[task_id - 1]
delete_task_at_position(task_id, task) ==
    IF IndexOk(tasks, task_id - 1)
    THEN [ tasks |-> RemoveAt(tasks, Position(tasks, task_id - 1)),
           response |-> Response(200, "", << task >>) ]
    ELSE [ tasks |-> tasks,
           response |-> InternalError("IndexError") ]

\* delete_task after authorize returned: tasks.remove(task); return task
delete_task(task_id, task) ==
    IF Contains(tasks, task)
    THEN [ tasks |-> ListRemove(tasks, task),
           response |-> Response(200, "", << task >>) ]
    ELSE [ tasks |-> tasks,
           response |-> InternalError("ValueError") ]

----------------------------------------------------------------------------
(* Requests *)

Suspend(q) == pending' = pending (+) SetToBag({q})
Resume(q) == pending' = pending (-) SetToBag({q})

Posting == {q \in BagToSet(pending) : q.method = "POST"}
NumPosting == BagCardinality([q \in Posting |-> pending[q]])

\* GET /tasks
GetTasks ==
    /\ Send(get_tasks)
    /\ UNCHANGED <<tasks, pending>>

\* GET /tasks/{task_id}
GetTask(task_id) ==
    /\ Send(get_task(task_id))
    /\ UNCHANGED <<tasks, pending>>

\* PUT /tasks/{task_id}: dependencies=[Depends(authenticate)], then the handler
UpdateTask(task_id, json, hdr) ==
    /\ IF token_auth_scheme(hdr)
       THEN /\ tasks' = update_task(task_id, json).tasks
            /\ Send(update_task(task_id, json).response)
       ELSE /\ \E st \in NotAuthenticatedStatus : Send(NotAuthenticated(st))
            /\ tasks' = tasks
    /\ UNCHANGED pending

\* POST /tasks: authenticate, then authorize up to its await of permit.check
CreateTask(json, hdr) ==
    /\ BagCardinality(pending) < MaxPending
    /\ Len(tasks) + NumPosting < MaxTasks
    /\ IF token_auth_scheme(hdr)
       THEN /\ Suspend([ method |-> "POST", hdr |-> hdr, json |-> json,
                         check |-> authorize("POST", TasksPath, hdr, json, << >>) ])
            /\ response' = response
       ELSE /\ \E st \in NotAuthenticatedStatus : Send(NotAuthenticated(st))
            /\ pending' = pending
    /\ UNCHANGED tasks

\* DELETE /tasks/{task_id}: authenticate, task = tasks[task_id - 1], then
\* authorize up to its await of permit.check
DeleteTask(task_id, hdr) ==
    /\ BagCardinality(pending) < MaxPending
    /\ IF ~token_auth_scheme(hdr)
       THEN /\ \E st \in NotAuthenticatedStatus : Send(NotAuthenticated(st))
            /\ pending' = pending
       ELSE IF ~IndexOk(tasks, task_id - 1)
       THEN /\ Send(InternalError("IndexError"))
            /\ pending' = pending
       ELSE LET task == tasks[Position(tasks, task_id - 1)]
            IN  /\ Suspend([ method |-> "DELETE", hdr |-> hdr, id |-> task_id,
                             task |-> task,
                             check |-> authorize("DELETE", TaskPath(task_id), hdr,
                                                 << >>, task) ])
                /\ response' = response
    /\ UNCHANGED tasks

\* an authorize that does not look at the decision of permit.check
OracleReplyUnchecked(q, outcome) ==
    /\ q \in BagToSet(pending)
    /\ Resume(q)
    /\ IF outcome = "error"
       THEN /\ Send(InternalError("PermitConnectionError"))
            /\ tasks' = tasks
       ELSE IF q.method = "POST"
       THEN /\ tasks' = create_task(q.json, q.hdr).tasks
            /\ Send(create_task(q.json, q.hdr).response)
       ELSE /\ tasks' = delete_task(q.id, q.task).tasks
            /\ Send(delete_task(q.id, q.task).response)

\* permit.check returns or raises, and the suspended request q runs to its
\* end: authorize raises 403 unless allowed, then the handler changes the list
OracleReply(q, outcome) ==
    /\ q \in BagToSet(pending)
    /\ Resume(q)
    /\ IF outcome = "error"
       THEN /\ Send(InternalError("PermitConnectionError"))
            /\ tasks' = tasks
       ELSE IF outcome = "deny"
       THEN /\ Send(NotAuthorized)
            /\ tasks' = tasks
       ELSE IF q.method = "POST"
       THEN /\ tasks' = create_task(q.json, q.hdr).tasks
            /\ Send(create_task(q.json, q.hdr).response)
       ELSE /\ tasks' = delete_task(q.id, q.task).tasks
            /\ Send(delete_task(q.id, q.task).response)

\* what permit.check can do
Outcomes == {"allow", "deny", "error"}

----------------------------------------------------------------------------
(* The server under concurrent clients *)

NoClient == [phase |-> "off", orig |-> << >>, created |-> << >>]

Init ==
    /\ tasks = InitialTasks
    /\ pending = EmptyBag
    /\ response = NoResponse
    /\ client = NoClient

\* a request of a client the model does not follow
Anonymous(request) == request /\ UNCHANGED client

\* the concurrent clients are connections of one caller, the admin, some of
\* which send no token or a token of another scheme
AnonymousHeaders == {hdr \in Headers : hdr.credentials # User}

Next ==
    \/ Anonymous(GetTasks)
    \/ \E id \in Ids : Anonymous(GetTask(id))
    \/ \E id \in Ids, json \in Bodies, hdr \in AnonymousHeaders : Anonymous(UpdateTask(id, json, hdr))
    \/ \E json \in Bodies, hdr \in AnonymousHeaders : Anonymous(CreateTask(json, hdr))
    \/ \E id \in Ids, hdr \in AnonymousHeaders : Anonymous(DeleteTask(id, hdr))
    \/ \E q \in BagToSet(pending), o \in Outcomes : Anonymous(OracleReply(q, o))

Spec == Init /\ [][Next]_vars

----------------------------------------------------------------------------
(* The server under the test client of test_main.py: one request at a     *)
(* time, each response kept.  The client remembers the list before a       *)
(* create (orig) and the task the create returned (created) while it       *)
(* follows the create with a delete of the new last id.                    *)

ClientIdle == [phase |-> "idle", orig |-> << >>, created |-> << >>]

InitClient ==
    /\ tasks = InitialTasks
    /\ pending = EmptyBag
    /\ response = NoResponse
    /\ client = ClientIdle

\* client.get("/tasks"), client.get("/tasks/{id}")
ClientGet ==
    /\ pending = EmptyBag
    /\ \/ GetTasks
       \/ \E id \in Ids : GetTask(id)
    /\ client' = ClientIdle

\* client.put("/tasks/{id}", json=..., headers=...)
ClientPut ==
    /\ pending = EmptyBag
    /\ \E id \in Ids, json \in Bodies, hdr \in Headers : UpdateTask(id, json, hdr)
    /\ client' = ClientIdle

\* client.post("/tasks", json=..., headers=...)
ClientPost ==
    /\ pending = EmptyBag
    /\ \E json \in Bodies, hdr \in Headers : CreateTask(json, hdr)
    /\ client' = IF pending' # pending
                 THEN [phase |-> "posting", orig |-> tasks, created |-> << >>]
                 ELSE ClientIdle

\* client.delete("/tasks/{id}", headers=...)
ClientDelete ==
    /\ pending = EmptyBag
    /\ \E id \in Ids, hdr \in Headers : DeleteTask(id, hdr)
    /\ client' = IF /\ client.phase = "created"
                    /\ \E q \in BagToSet(pending') : q.id = Len(tasks)
                 THEN [client EXCEPT !.phase = "deleting"]
                 ELSE ClientIdle

\* the request the client waits for ends
ClientReceive ==
    /\ \E q \in BagToSet(pending), o \in Outcomes : OracleReply(q, o)
    /\ client' =
         IF client.phase = "posting" /\ response'.status = 200
         THEN [client EXCEPT !.phase = "created", !.created = response'.body]
         ELSE IF client.phase = "deleting" /\ response'.status = 200
         THEN [client EXCEPT !.phase = "deleted"]
         ELSE ClientIdle

NextClient == ClientGet \/ ClientPut \/ ClientPost \/ ClientDelete \/ ClientReceive

SpecClient == InitClient /\ [][NextClient]_vars

----------------------------------------------------------------------------
(* Properties *)

\* a header that carries a well-formed bearer token
BearerToken(hdr) == hdr.scheme = "Bearer" /\ hdr.credentials # ""
BearerHeaders == {hdr \in Headers : BearerToken(hdr)}

\* the value Task gives the field checked of a JSON body
CheckedOf(json) == IF "checked" \in DOMAIN json THEN json.checked ELSE FALSE

\* C1: when the oracle denies the check of a suspended POST or DELETE, the
\* request ends with 403 "Not authorized" and the task list is exactly as it
\* was: nothing appended, nothing removed, no owner changed.
C1_DeniedLeavesStore ==
    [][\A q \in BagToSet(pending) :
         OracleReply(q, "deny") =>
            /\ response'.status = 403
            /\ response'.detail = "Not authorized"
            /\ tasks' = tasks]_vars

\* a denial was delivered to a POST and the list is the constructed one
C1_Witness ==
    /\ response.status = 403
    /\ response.detail = "Not authorized"
    /\ tasks = InitialTasks

\* C2: the task list changes only in a step in which a request that was
\* authenticated and asked the oracle receives a positive decision.
C2_MutationOnlyAfterAllow ==
    [][tasks' # tasks =>
         \E q \in BagToSet(pending) :
            BearerToken(q.hdr) /\ OracleReply(q, "allow")]_vars

\* C3: a POST, PUT or DELETE without a well-formed bearer token is rejected,
\* suspends no request in the oracle and leaves the task list unchanged.
C3_NoTokenRejected ==
    [][\A hdr \in Headers \ BearerHeaders, json \in Bodies, id \in Ids :
         (CreateTask(json, hdr) \/ UpdateTask(id, json, hdr) \/ DeleteTask(id, hdr)) =>
            /\ response'.status \in {401, 403}
            /\ response'.detail = "Not authenticated"
            /\ pending' = pending
            /\ tasks' = tasks]_vars

\* a request without a token was rejected after the list had been changed
C3_Witness ==
    /\ response.detail = "Not authenticated"
    /\ pending = EmptyBag
    /\ tasks # InitialTasks

C5_UpdateKeepsOwner ==
    [][\A id \in Ids, json \in Bodies, hdr \in Headers :
         UpdateTask(id, json, hdr) =>
            /\ Len(tasks') = Len(tasks)
            /\ \A i \in 1..Len(tasks) : tasks'[i].owner = tasks[i].owner
            /\ id \in 1..Len(tasks) =>
                 /\ \A i \in 1..Len(tasks) : i # id => tasks'[i] = tasks[i]
                 /\ BearerToken(hdr) =>
                      /\ tasks'[id].title = json.title
                      /\ tasks'[id].checked = CheckedOf(json)]_vars

\* the user's Task 2 and the admin's Task 3 were overwritten by the body
\* that names the user as owner: both kept their owner
C5_Witness ==
    /\ Len(tasks) = 3
    /\ tasks[2] = [title |-> "Task 1", checked |-> FALSE, owner |-> User]
    /\ tasks[3] = [title |-> "Task 1", checked |-> FALSE, owner |-> Admin]
    /\ response = Response(200, "", << tasks[3] >>)

\* C6: GET, PUT and DELETE with an id beyond the length of the list answer
\* 404 and leave the list unchanged.
C6_OutOfRangeNotFound ==
    [][\A id \in Ids, json \in Bodies, hdr \in BearerHeaders :
         (id > Len(tasks)
            /\ (GetTask(id) \/ UpdateTask(id, json, hdr) \/ DeleteTask(id, hdr))) =>
            /\ response'.status = 404
            /\ tasks' = tasks]_vars

\* C7: a successful POST followed at once by a successful DELETE of the new
\* last id gives back the list as it was before the POST, and the DELETE
\* answers the task the POST created.
C7_RoundTrip ==
    client.phase = "deleted" =>
        /\ tasks = client.orig
        /\ response.body = client.created

\* C8: the check sent to the oracle has the token as subject, the lowercased
\* method as action, "tasks" as resource type, and as attributes the request
\* body for POST and the task at position id for DELETE.
C8_CheckArguments ==
    [][/\ \A json \in Bodies, hdr \in BearerHeaders :
            CreateTask(json, hdr) =>
               pending' = pending (+) SetToBag({
                   [ method |-> "POST", hdr |-> hdr, json |-> json,
                     check |-> [ user |-> hdr.credentials, action |-> "post",
                                 resource |-> [type |-> "tasks", attributes |-> json] ] ] })
       /\ \A id \in 1..Len(tasks), hdr \in BearerHeaders :
            DeleteTask(id, hdr) =>
               pending' = pending (+) SetToBag({
                   [ method |-> "DELETE", hdr |-> hdr, id |-> id, task |-> tasks[id],
                     check |-> [ user |-> hdr.credentials, action |-> "delete",
                                 resource |-> [type |-> "tasks",
                                               attributes |-> tasks[id]] ] ] })]_vars

\* the admin's DELETE /tasks/2 is in the oracle, after a POST was answered
C8_Witness ==
    \E d \in BagToSet(pending) :
       /\ d.method = "DELETE" /\ d.id = 2
       /\ d.check.user = Admin
       /\ d.check.action = "delete"
       /\ d.check.resource.type = "tasks"
       /\ d.check.resource.attributes = [title |-> "Task 2", checked |-> TRUE, owner |-> User]
       /\ Len(tasks) = 4

\* C9: a DELETE the oracle allowed either fails and leaves the list as it is,
\* or removes exactly one entry, equal to the task submitted to the oracle.
C9_DeleteRemovesSubmitted ==
    [][\A q \in BagToSet(pending) :
         (q.method = "DELETE" /\ OracleReply(q, "allow")) =>
            \/ tasks' = tasks /\ ~Contains(tasks, q.check.resource.attributes)
            \/ \E i \in 1..Len(tasks) :
                  /\ tasks[i] = q.check.resource.attributes
                  /\ tasks' = RemoveAt(tasks, i)]_vars

\* while a DELETE of Task 3 waits for the oracle, Task 3 was overwritten by a
\* PUT and another DELETE removed an earlier entry, so that the position the
\* waiting DELETE looked at is gone
C9_Witness ==
    \E q \in BagToSet(pending) :
       /\ q.method = "DELETE"
       /\ q.task = [title |-> "Task 3", checked |-> FALSE, owner |-> Admin]
       /\ Len(tasks) = 2
       /\ Contains(tasks, [title |-> "Task 1", checked |-> FALSE, owner |-> Admin])
       /\ ~Contains(tasks, q.task)

\* C10: with a non-empty list, GET, PUT and DELETE with an id of 0 or below
\* address no task: nothing is returned, overwritten or submitted for removal.
C10_NonPositiveIdAddressesNothing ==
    [][\A id \in Ids, json \in Bodies, hdr \in BearerHeaders :
         (id <= 0 /\ Len(tasks) > 0) =>
            /\ GetTask(id) => response'.body = << >>
            /\ UpdateTask(id, json, hdr) => tasks' = tasks /\ response'.body = << >>
            /\ DeleteTask(id, hdr) => pending' = pending /\ response'.body = << >>]_vars

====
